---- MODULE Spec2Model ----
EXTENDS Integers, Sequences, FiniteSets, TLC

\* ------------------------------------------------------------------ numbers
\* A JavaScript number is modelled as a decimal floating-point value with a
\* four-digit significand, [m |-> significand, e |-> exponent], standing for
\* m * 10^e and normalised so that 1000 <= |m| <= 9999, or m = 0 and e = 0.
\* Every arithmetic result is rounded to four significant digits (half away
\* from zero), as an IEEE double rounds to 53 bits, and a result too large
\* for the format is Infinity, as a double overflows above 1.8 * 10^308.
Pow10 == [k \in 0..9 |-> 10^k]

Abs(n) == IF n < 0 THEN -n ELSE n

Sign(n) == IF n < 0 THEN -1 ELSE 1

NumDigits(n) ==
    IF n < 10000
    THEN (IF n < 100 THEN (IF n < 10 THEN 1 ELSE 2)
                     ELSE (IF n < 1000 THEN 3 ELSE 4))
    ELSE IF n < 1000000 THEN (IF n < 100000 THEN 5 ELSE 6)
    ELSE IF n < 100000000 THEN (IF n < 10000000 THEN 7 ELSE 8)
    ELSE IF n < 1000000000 THEN 9 ELSE 10

Zero == [m |-> 0, e |-> 0]

\* Not-a-number, the result of parseFloat on text that holds no number: the
\* one value that is not normalised.
NaN == [m |-> 0, e |-> 1]

\* Infinity and -Infinity, not normalised either.
Infinity == [m |-> 1, e |-> 0]

NegInfinity == [m |-> -1, e |-> 0]

IsInfinite(x) == x \in {Infinity, NegInfinity}

\* Number.isFinite(x)
IsFinite(x) == x # NaN /\ ~IsInfinite(x)

\* The largest exponent of a finite number: the largest finite number is
\* 9999 * 10^305, of the magnitude 10^308 of the largest double.
MaxExponent == 305

\* The integer s * 10^e rounded to four significant digits.
Round4(s, e) ==
    IF s = 0 THEN Zero
    ELSE LET a == Abs(s)
             n == NumDigits(a)
         IN  IF n <= 4
             THEN [m |-> s * Pow10[4 - n], e |-> e - (4 - n)]
             ELSE LET r == (a + 5 * Pow10[n - 5]) \div Pow10[n - 4]
                  IN  IF r = 10000
                      THEN [m |-> Sign(s) * 1000, e |-> e + (n - 4) + 1]
                      ELSE [m |-> Sign(s) * r, e |-> e + (n - 4)]

\* The number s * 10^e as the format holds it: rounded, and infinite on
\* overflow. (No value the model reaches is small enough to underflow.)
Norm(s, e) ==
    LET r == Round4(s, e)
    IN  IF r.e > MaxExponent THEN (IF s < 0 THEN NegInfinity ELSE Infinity)
        ELSE r

Num(n) == Norm(n, 0)

Neg(x) == IF x = NaN THEN NaN ELSE [m |-> -x.m, e |-> IF x.m = 0 THEN 0 ELSE x.e]

\* x + y
Add(x, y) ==
    IF x = NaN \/ y = NaN THEN NaN
    ELSE IF IsInfinite(x) THEN (IF IsInfinite(y) /\ y # x THEN NaN ELSE x)
    ELSE IF IsInfinite(y) THEN y
    ELSE IF x.m = 0 THEN y
    ELSE IF y.m = 0 THEN x
    ELSE LET hi == IF x.e >= y.e THEN x ELSE y
             lo == IF x.e >= y.e THEN y ELSE x
             d  == hi.e - lo.e
         IN  IF d > 5 THEN hi
             ELSE Norm(hi.m * Pow10[d] + lo.m, lo.e)

\* x - y
Sub(x, y) == Add(x, Neg(y))

\* x * y
Mul(x, y) ==
    IF x = NaN \/ y = NaN THEN NaN
    ELSE IF IsInfinite(x) \/ IsInfinite(y)
    THEN (IF x.m = 0 \/ y.m = 0 THEN NaN
          ELSE IF Sign(x.m) = Sign(y.m) THEN Infinity ELSE NegInfinity)
    ELSE Norm(x.m * y.m, x.e + y.e)

\* x / y
Div(x, y) ==
    IF x = NaN \/ y = NaN THEN NaN
    ELSE IF IsInfinite(x)
    THEN (IF IsInfinite(y) THEN NaN
          ELSE IF Sign(x.m) = Sign(y.m) THEN Infinity ELSE NegInfinity)
    ELSE IF IsInfinite(y) THEN Zero
    ELSE IF y.m = 0
    THEN (IF x.m = 0 THEN NaN ELSE IF x.m > 0 THEN Infinity ELSE NegInfinity)
    ELSE IF x.m = 0 THEN Zero
    ELSE LET a == Abs(x.m)
             b == Abs(y.m)
             k == IF a >= b THEN 3 ELSE 4
             q == (2 * a * Pow10[k] + b) \div (2 * b)
         IN  Norm(Sign(x.m) * Sign(y.m) * q, x.e - y.e - k)

\* x < y, x >= y, x > y: the comparison is exact (the sign of a difference
\* is never lost by rounding), and false when either side is NaN.
Less(x, y) == x # NaN /\ y # NaN /\ Sub(x, y).m < 0

Geq(x, y) == x # NaN /\ y # NaN /\ ~Less(x, y)

Greater(x, y) == Less(y, x)

\* Math.max(x, y), Math.min(x, y)
MathMax(x, y) == IF x = NaN \/ y = NaN THEN NaN ELSE IF Less(x, y) THEN y ELSE x

MathMin(x, y) == IF x = NaN \/ y = NaN THEN NaN ELSE IF Less(y, x) THEN y ELSE x

\* Math.pow(base, n) for an integer n >= 0, by n multiplications
\* (acc is 0 only for base 0, and then stays 0.)
RECURSIVE PowFrom(_, _, _)
PowFrom(base, n, acc) ==
    IF n = 0 \/ acc.m = 0 THEN acc ELSE PowFrom(base, n - 1, Mul(acc, base))

MathPow(base, n) == PowFrom(base, n, Num(1))

\* Math.round(x) = floor(x + 0.5); NaN and the infinities round to
\* themselves.
MathRound(x) ==
    IF x = NaN \/ IsInfinite(x) THEN x
    ELSE IF x.m = 0 THEN Zero
    ELSE IF x.e >= 0 THEN x
    ELSE IF x.e < -4 THEN Zero
    ELSE Num((x.m + 5 * Pow10[(-x.e) - 1]) \div Pow10[-x.e])

\* --------------------------------------------------------------------- text
\* A string is a sequence of one-character strings.
Digits == {"0", "1", "2", "3", "4", "5", "6", "7", "8", "9"}

DigitVal ==
    "0" :> 0 @@ "1" :> 1 @@ "2" :> 2 @@ "3" :> 3 @@ "4" :> 4 @@
    "5" :> 5 @@ "6" :> 6 @@ "7" :> 7 @@ "8" :> 8 @@ "9" :> 9

DigitChar == [d \in 0..9 |-> CHOOSE c \in Digits : DigitVal[c] = d]

\* The length of the longest prefix of s made of digits.
DigitRun(s) ==
    IF \A i \in 1..Len(s) : s[i] \in Digits THEN Len(s)
    ELSE (CHOOSE i \in 1..Len(s) :
             s[i] \notin Digits /\ \A j \in 1..(i - 1) : s[j] \in Digits) - 1

\* The number of leading zeros of a sequence of digit values.
LeadingZeros(d) ==
    IF \A i \in 1..Len(d) : d[i] = 0 THEN Len(d)
    ELSE (CHOOSE i \in 1..Len(d) : d[i] # 0 /\ \A j \in 1..(i - 1) : d[j] = 0) - 1

\* The decimal text of an integer n >= 0, as String(n) gives it.
RECURSIVE NumberText(_)
NumberText(n) ==
    IF n < 10 THEN <<DigitChar[n]>>
    ELSE Append(NumberText(n \div 10), DigitChar[n % 10])

\* parseFloat(s): an optional sign, digits, and optionally a point and more
\* digits, read from the start of s; what follows is ignored; NaN when no
\* digit is read. (Leading white space and exponents do not occur.)
ParseFloat(s) ==
    LET sgn  == IF s # <<>> /\ Head(s) = "-" THEN -1 ELSE 1
        body == IF s # <<>> /\ Head(s) \in {"-", "+"} THEN Tail(s) ELSE s
        ni   == DigitRun(body)
        rest == SubSeq(body, ni + 1, Len(body))
        nf   == IF rest # <<>> /\ Head(rest) = "." THEN DigitRun(Tail(rest)) ELSE 0
        ds   == [i \in 1..(ni + nf) |->
                    DigitVal[IF i <= ni THEN body[i] ELSE body[i + 1]]]
        z    == LeadingZeros(ds)
        d5   == [i \in 1..5 |-> IF z + i <= ni + nf THEN ds[z + i] ELSE 0]
    IN  IF ni + nf = 0 THEN NaN
        ELSE IF z = ni + nf THEN Zero
        ELSE Norm(sgn * (d5[1] * 10000 + d5[2] * 1000 + d5[3] * 100
                          + d5[4] * 10 + d5[5]),
                  (ni - z) - 5)

\* parseInt(s) on the text of a range input whose step is a whole number.
ParseInt(s) == ParseFloat(SubSeq(s, 1, DigitRun(s)))

\* value.replace(/[^\d.]/g, '')
IsDigitOrPoint(c) == c \in Digits \cup {"."}

\* parseCurrency without the fallback to 0: parseFloat(cleaned)
ParseCurrencyNoFallback(value) ==
    ParseFloat(SelectSeq(value, IsDigitOrPoint))

\* parseCurrency without the clean-up: parseFloat(value) || 0
ParseCurrencyKeepSign(value) ==
    LET parsed == ParseFloat(value)
    IN  IF parsed = NaN \/ parsed.m = 0 THEN Zero ELSE parsed

\* parseCurrency(value): strip all but digits and points, parseFloat, and 0
\* for NaN or 0 (parseFloat(cleaned) || 0).
ParseCurrency(value) ==
    LET cleaned == SelectSeq(value, IsDigitOrPoint)
        parsed  == ParseFloat(cleaned)
    IN  IF parsed = NaN \/ parsed.m = 0 THEN Zero ELSE parsed

\* parsePercentage(value) of PassiveIncomeTracker: the same rule.
ParsePercentage(value) ==
    LET cleaned == SelectSeq(value, IsDigitOrPoint)
        parsed  == ParseFloat(cleaned)
    IN  IF parsed = NaN \/ parsed.m = 0 THEN Zero ELSE parsed

\* formatCurrencyInput(value) === '' in NetWorthEngine and
\* PassiveIncomeTracker: the text field shows the empty string exactly for 0
\* (any other value is shown as "$...").
CurrencyInputIsEmpty(value) == value = Zero

\* ------------------------------------------------------------- bounds, inputs
\* The number of user operations a behaviour of Spec performs.
MaxOps == 2

\* The number of user operations a behaviour of SpecPage performs.
MaxPageOps == 4

\* Texts typed into the password field.
PasswordTexts ==
    { <<>>, <<"a", "b", "c">>,
      <<"M", "J", "L", "1">>, <<"m", "j", "l", "1", "1">>,
      <<" ", "M", "j", "L", "1", "1", " ">>, <<"M", "J", "L", " ", "1">>,
      <<"M", "J", "L", "1", "2">>, <<"M", "J", "L">> }

\* A digit string too long for a finite number.
LongDigits == [i \in 1..(MaxExponent + 5) |-> "9"]

\* Texts typed into the currency fields.
CurrencyTexts ==
    { <<>>,
      <<"a", "b", "c">>,
      <<".">>,
      <<"-", "5", "0", "0">>,
      <<"1", "5", "0", "0", "0", "0", "0", ".", "5">>,
      LongDigits }

\* Texts typed into the growth-rate field of PassiveIncomeTracker.
PercentageTexts == { <<>>, <<"7", ".", "5", "%">>, <<"2", "0", "0">> }

\* The slider maxima of NetWorthEngine (first variant) and the scorecards.
CashSliderMax == 1000000
PropertySliderMax == 10000000
OtherSliderMax == 5000000
LiabilitySliderMax == 5000000
AssetSliderFloor == 5000000
LiabilitySliderFloor == 2000000
YearlyInvestmentSliderMax == 500000
YearlyInvestmentSliderStep == 5000
ScorecardSliderMax == 1000000
TrackerSliderMax == 500000
GrowthSliderMax == 15
SavingsSliderMax == 100
HorizonSliderMin == 5
HorizonSliderMax == 50
HorizonSliderStep == 5

\* The text a range input with step 0.5 reports at k half steps.
HalfStepText(k) ==
    IF k % 2 = 0 THEN NumberText(k \div 2)
    ELSE NumberText(k \div 2) \o <<".", "5">>

\* Positions the model moves the sliders to.
GrowthStops == {0, 15, 2 * GrowthSliderMax}
HorizonStops == {HorizonSliderMin, HorizonSliderMax}
YearlyInvestmentStops == {YearlyInvestmentSliderStep, YearlyInvestmentSliderMax}
SavingsStops == {0, SavingsSliderMax}
SliderStops(max) == {max}

\* The whole part of a model number x >= 0 (below 2^31).
IntOf(x) ==
    IF x.e >= 0 THEN x.m * Pow10[x.e]
    ELSE IF x.e < -4 THEN 0
    ELSE x.m \div Pow10[-x.e]

\* ------------------------------------------------------------------- state
VARIABLES
    mounted,              \* the component this behaviour follows
    variant,              \* NetWorthEngine: 1 = first variant, 2 = second
    assets,               \* NetWorthEngine: <<[name, value]>>
    liabilities,
    growthRate,           \* the mounted component's growthRate
    horizon,
    yearlyInvestment,
    totalAssets,          \* useMemo values of NetWorthEngine
    totalLiabilities,
    netWorth,
    targetLifestyle,      \* FreedomScorecard
    passiveIncome,
    activeIncome,
    savingsRate,
    showCelebration,      \* FreedomScorecard: the celebration modal is open
    hasReachedFreedom,
    lifestyleCost,        \* PassiveIncomeTracker
    currentPassiveIncome,
    currentYear,          \* new Date().getFullYear() and .getMonth()
    currentMonth,
    rendered,             \* the derived values below have been computed
    projectionData,       \* NetWorthEngine: <<[year, value]>>
    freedomDate,          \* FreedomScorecard
    freedomPercentage,    \* FreedomScorecard and PassiveIncomeTracker
    financialIndependenceYear,   \* PassiveIncomeTracker
    activeTab,            \* Home: the selected tab
    darkMode,
    password,             \* PasswordGate
    error,
    isAuthenticated,
    expectedPassword,
    lastOp,               \* the last user operation: [op, index, text]
    nOps

vars == <<mounted, variant, assets, liabilities, growthRate, horizon,
          yearlyInvestment, totalAssets, totalLiabilities, netWorth,
          targetLifestyle, passiveIncome, activeIncome, savingsRate,
          lifestyleCost, currentPassiveIncome, currentYear, currentMonth,
          rendered, projectionData, freedomDate, freedomPercentage,
          financialIndependenceYear, showCelebration, hasReachedFreedom,
          activeTab, darkMode, password, error, isAuthenticated,
          expectedPassword, lastOp, nOps>>

nweVars == <<assets, liabilities, horizon, yearlyInvestment, totalAssets,
             totalLiabilities, netWorth>>
celebrationVars == <<showCelebration, hasReachedFreedom>>
fsVars == <<targetLifestyle, passiveIncome, activeIncome, savingsRate,
            celebrationVars>>
gateVars == <<password, error, isAuthenticated, expectedPassword>>
pageVars == <<activeTab, darkMode, gateVars>>
pitVars == <<lifestyleCost, currentPassiveIncome>>
derivedVars == <<rendered, projectionData, freedomDate, freedomPercentage,
                 financialIndependenceYear>>
clockVars == <<currentYear, currentMonth>>

Components == {"NetWorthEngine", "FreedomScorecard", "PassiveIncomeTracker"}

AssetNames == <<"Cash", "Stocks & ETFs", "Property", "Super", "Other">>
LiabilityNames ==
    <<"Mortgage", "Credit Card", "Personal Loans", "Margin Loan", "Other">>

\* ------------------------------------------------- Home and PasswordGate
Tabs == {"networth", "freedom"}

\* Every tab selects the tracker.
TabContentTracker(tab) == "PassiveIncomeTracker"

\* activeTab === 'networth' ? <NetWorthEngine /> : <FreedomScorecard />
TabContent(tab) ==
    IF tab = "networth" THEN "NetWorthEngine" ELSE "FreedomScorecard"

\* if (isAuthenticated) return <>{children}</>, else the login form
GateContent(authenticated, children) ==
    IF authenticated THEN children ELSE "PasswordGate"

Whitespace == {" "}

\* String.prototype.trim
Trim(s) ==
    LET kept == { i \in 1..Len(s) : s[i] \notin Whitespace }
    IN  IF kept = {} THEN <<>>
        ELSE SubSeq(s, CHOOSE i \in kept : \A j \in kept : i <= j,
                       CHOOSE i \in kept : \A j \in kept : j <= i)

LowerLetters == <<"a", "b", "c", "d", "e", "f", "g", "h", "i", "j", "k", "l", "m",
                  "n", "o", "p", "q", "r", "s", "t", "u", "v", "w", "x", "y", "z">>
UpperLetters == <<"A", "B", "C", "D", "E", "F", "G", "H", "I", "J", "K", "L", "M",
                  "N", "O", "P", "Q", "R", "S", "T", "U", "V", "W", "X", "Y", "Z">>

\* String.prototype.toUpperCase
ToUpperCase(s) ==
    [ i \in 1..Len(s) |->
        IF \E k \in 1..26 : LowerLetters[k] = s[i]
        THEN UpperLetters[CHOOSE k \in 1..26 : LowerLetters[k] = s[i]]
        ELSE s[i] ]

\* `MJL${new Date().getMonth() + 1}`
ExpectedPassword(month) == <<"M", "J", "L">> \o NumberText(month + 1)

\* The comparison that accepts every text the expected password starts.
PasswordStartsExpected(typed, expected) ==
    /\ Len(typed) >= 1
    /\ Len(typed) <= Len(expected)
    /\ SubSeq(expected, 1, Len(typed)) = ToUpperCase(Trim(typed))

\* password.trim().toUpperCase() === expectedPassword
PasswordMatches(typed, expected) == ToUpperCase(Trim(typed)) = expected

IncorrectPassword == "Incorrect password. Please try again."

\* useState initial values of the two variants of NetWorthEngine.
InitialAssets(v) ==
    [i \in 1..Len(AssetNames) |->
        [name |-> AssetNames[i],
         value |-> IF v = 2 /\ i = 1 THEN Num(1421000)
                   ELSE IF v = 2 /\ i = 2 THEN Num(1091000)
                   ELSE Zero]]

InitialLiabilities(v) ==
    [i \in 1..Len(LiabilityNames) |->
        [name |-> LiabilityNames[i],
         value |-> IF v = 2 /\ i = 1 THEN Num(607000) ELSE Zero]]

InitialGrowthRate(c) == IF c = "NetWorthEngine" THEN Num(6) ELSE Num(7)

\* assets.reduce((sum, a) => sum + a.value, 0)
RECURSIVE SumFrom(_, _, _)
SumFrom(items, i, sum) ==
    IF i > Len(items) THEN sum
    ELSE SumFrom(items, i + 1, Add(sum, items[i].value))

\* The sum with the first item left out.
TotalOfSkipFirst(items) == SumFrom(items, 2, Zero)

TotalOf(items) == SumFrom(items, 1, Zero)

\* netWorth = totalAssets - totalLiabilities
NetWorthOf(ta, tl) == Sub(ta, tl)

\* The results of the independence resolvers: a month and year as
\* toLocaleDateString('en-US', {month: 'long', year: 'numeric'}) prints them,
\* the text 'Beyond 50 years', or null.
MonthNames ==
    <<"January", "February", "March", "April", "May", "June", "July",
      "August", "September", "October", "November", "December">>

MonthYear(monthIndex, year) ==
    [kind |-> "date", month |-> MonthNames[monthIndex + 1], year |-> year]

BeyondText == [kind |-> "Beyond 50 years", month |-> "", year |-> 0]

Null == [kind |-> "null", month |-> "", year |-> 0]

\* The wall clock the components read.
ClockYears == {2026, 2027}
ClockMonths == {0, 10}

\* Before the first render no derived value exists.
NotRendered ==
    /\ rendered = FALSE
    /\ projectionData = <<>>
    /\ freedomDate = Null
    /\ freedomPercentage = Zero
    /\ financialIndependenceYear = Null

Init ==
    /\ mounted \in Components
    /\ variant \in (IF mounted = "NetWorthEngine" THEN {1, 2} ELSE {1})
    /\ assets = InitialAssets(variant)
    /\ liabilities = InitialLiabilities(variant)
    /\ growthRate = InitialGrowthRate(mounted)
    /\ horizon = Num(20)
    /\ yearlyInvestment = Zero
    /\ totalAssets = TotalOf(assets)
    /\ totalLiabilities = TotalOf(liabilities)
    /\ netWorth = NetWorthOf(totalAssets, totalLiabilities)
    /\ targetLifestyle = Zero
    /\ passiveIncome = Zero
    /\ activeIncome = Zero
    /\ savingsRate = Num(15)
    /\ lifestyleCost = Zero
    /\ currentPassiveIncome = Zero
    \* NetWorthEngine never reads the clock, and
    \* only PassiveIncomeTracker reads the month
    /\ currentYear \in (IF mounted = "NetWorthEngine" THEN {2026} ELSE ClockYears)
    /\ currentMonth \in (IF mounted = "PassiveIncomeTracker" THEN ClockMonths ELSE {10})
    /\ showCelebration = FALSE
    /\ hasReachedFreedom = FALSE
    \* the component is followed on its own, past the password gate
    /\ activeTab = (IF mounted = "FreedomScorecard" THEN "freedom" ELSE "networth")
    /\ darkMode = FALSE
    /\ password = <<>>
    /\ error = ""
    /\ isAuthenticated = TRUE
    /\ expectedPassword = ExpectedPassword(currentMonth)
    /\ NotRendered
    /\ lastOp = [op |-> "mount", index |-> 0, text |-> <<>>]
    /\ nOps = 0

\* Every operation is one user event on the mounted component.
Op(component, name, index, text) ==
    /\ mounted = component
    /\ nOps < MaxOps
    /\ nOps' = nOps + 1
    /\ lastOp' = [op |-> name, index |-> index, text |-> text]
    /\ UNCHANGED <<mounted, variant, clockVars, derivedVars, pageVars>>

\* --------------------------------------------------------- NetWorthEngine
\* The update that writes v into every item.
WithValueInAll(items, index, v) == [i \in DOMAIN items |-> [items[i] EXCEPT !.value = v]]

\* updated = [...items]; updated[index].value = v
WithValue(items, index, v) == [items EXCEPT ![index].value = v]

\* The maximum of a range input whose max attribute is not a finite number.
RangeDefaultMax == 100

\* The max attribute of an asset's range input: fixed per asset in the first
\* variant, Math.max(5000000, asset.value * 2) in the second.
AssetSliderMax(v, asset) ==
    IF v = 1
    THEN (IF asset.name = "Cash" THEN CashSliderMax
          ELSE IF asset.name = "Property" THEN PropertySliderMax
          ELSE OtherSliderMax)
    ELSE LET max == MathMax(Num(AssetSliderFloor), Mul(asset.value, Num(2)))
         IN  IF IsFinite(max) THEN IntOf(max) ELSE RangeDefaultMax

\* The max attribute of a liability's range input.
LiabilitySliderMaxOf(v, liability) ==
    IF v = 1 THEN LiabilitySliderMax
    ELSE LET max == MathMax(Num(LiabilitySliderFloor), Mul(liability.value, Num(2)))
         IN  IF IsFinite(max) THEN IntOf(max) ELSE RangeDefaultMax

\* The value attribute of an asset's range input: sliderValue =
\* Math.min(asset.value, sliderMax) in the first variant, asset.value in the
\* second.
AssetSliderValue(v, asset) ==
    IF v = 1 THEN MathMin(asset.value, Num(AssetSliderMax(v, asset)))
    ELSE asset.value

\* The value attribute of a liability's range input.
LiabilitySliderValue(v, liability) ==
    IF v = 1 THEN MathMin(liability.value, Num(LiabilitySliderMaxOf(v, liability)))
    ELSE liability.value

\* setAssets storing what the sliders show.
SetAssetsAsShown(updated) ==
    /\ assets' = [i \in DOMAIN updated |->
                    [updated[i] EXCEPT !.value = AssetSliderValue(variant, updated[i])]]
    /\ totalAssets' = SumFrom(assets', 1, Zero)
    /\ netWorth' = Sub(totalAssets', totalLiabilities)
    /\ UNCHANGED <<liabilities, totalLiabilities>>

\* setAssets(updated) and the re-render: totalAssets and netWorth are
\* recomputed, totalLiabilities keeps its memoised value.
SetAssets(updated) ==
    /\ assets' = updated
    /\ totalAssets' = TotalOf(updated)
    /\ netWorth' = NetWorthOf(totalAssets', totalLiabilities)
    /\ UNCHANGED <<liabilities, totalLiabilities>>

SetLiabilities(updated) ==
    /\ liabilities' = updated
    /\ totalLiabilities' = TotalOf(updated)
    /\ netWorth' = NetWorthOf(totalAssets, totalLiabilities')
    /\ UNCHANGED <<assets, totalAssets>>

\* handleAssetInputChange(index, value)
HandleAssetInputChange(index, value) ==
    /\ Op("NetWorthEngine", "handleAssetInputChange", index, value)
    /\ LET numValue == ParseCurrency(value)
       IN  SetAssets(WithValue(assets, index, MathMax(Zero, numValue)))
    /\ UNCHANGED <<growthRate, horizon, yearlyInvestment, fsVars, pitVars>>

\* handleLiabilityInputChange(index, value)
HandleLiabilityInputChange(index, value) ==
    /\ Op("NetWorthEngine", "handleLiabilityInputChange", index, value)
    /\ LET numValue == ParseCurrency(value)
       IN  SetLiabilities(WithValue(liabilities, index, MathMax(Zero, numValue)))
    /\ UNCHANGED <<growthRate, horizon, yearlyInvestment, fsVars, pitVars>>

\* onBlur of an asset text field: the handler acts when the field is empty.
AssetBlur(index) ==
    /\ Op("NetWorthEngine", "assetBlur", index, <<>>)
    /\ IF CurrencyInputIsEmpty(assets[index].value)
       THEN SetAssets(WithValue(assets, index, Zero))
       ELSE UNCHANGED <<assets, liabilities, totalAssets, totalLiabilities, netWorth>>
    /\ UNCHANGED <<growthRate, horizon, yearlyInvestment, fsVars, pitVars>>

LiabilityBlur(index) ==
    /\ Op("NetWorthEngine", "liabilityBlur", index, <<>>)
    /\ IF CurrencyInputIsEmpty(liabilities[index].value)
       THEN SetLiabilities(WithValue(liabilities, index, Zero))
       ELSE UNCHANGED <<assets, liabilities, totalAssets, totalLiabilities, netWorth>>
    /\ UNCHANGED <<growthRate, horizon, yearlyInvestment, fsVars, pitVars>>

\* onChange of an asset's range input at position pos (0 <= pos <= max).
AssetSlider(index, pos) ==
    /\ Op("NetWorthEngine", "assetSlider", index, NumberText(pos))
    /\ SetAssets(WithValue(assets, index, ParseFloat(NumberText(pos))))
    /\ UNCHANGED <<growthRate, horizon, yearlyInvestment, fsVars, pitVars>>

LiabilitySlider(index, pos) ==
    /\ Op("NetWorthEngine", "liabilitySlider", index, NumberText(pos))
    /\ SetLiabilities(WithValue(liabilities, index, ParseFloat(NumberText(pos))))
    /\ UNCHANGED <<growthRate, horizon, yearlyInvestment, fsVars, pitVars>>

\* onChange of the growth-rate range input (0..15, step 0.5), k half steps.
GrowthSlider(component, k) ==
    /\ Op(component, "growthSlider", 0, HalfStepText(k))
    /\ growthRate' = ParseFloat(HalfStepText(k))
    /\ UNCHANGED <<nweVars, fsVars, pitVars>>

\* onChange of the Yearly Investment text field.
YearlyInvestmentInput(value) ==
    /\ Op("NetWorthEngine", "yearlyInvestmentInput", 0, value)
    /\ yearlyInvestment' = ParseCurrency(value)
    /\ UNCHANGED <<assets, liabilities, totalAssets, totalLiabilities, netWorth,
                   growthRate, horizon, fsVars, pitVars>>

YearlyInvestmentBlur ==
    /\ Op("NetWorthEngine", "yearlyInvestmentBlur", 0, <<>>)
    /\ yearlyInvestment' =
         IF CurrencyInputIsEmpty(yearlyInvestment) THEN Zero ELSE yearlyInvestment
    /\ UNCHANGED <<assets, liabilities, totalAssets, totalLiabilities, netWorth,
                   growthRate, horizon, fsVars, pitVars>>

\* onChange of the Yearly Investment range input (0..500000, step 5000).
YearlyInvestmentSlider(pos) ==
    /\ Op("NetWorthEngine", "yearlyInvestmentSlider", 0, NumberText(pos))
    /\ yearlyInvestment' = ParseFloat(NumberText(pos))
    /\ UNCHANGED <<assets, liabilities, totalAssets, totalLiabilities, netWorth,
                   growthRate, horizon, fsVars, pitVars>>

\* The Horizon input without its range: the position counted twice.
HorizonSliderUnbounded(pos) ==
    /\ Op("NetWorthEngine", "horizonSlider", 0, NumberText(pos))
    /\ horizon' = ParseInt(NumberText(2 * pos))
    /\ UNCHANGED <<assets, liabilities, totalAssets, totalLiabilities, netWorth,
                   growthRate, yearlyInvestment, fsVars, pitVars>>

\* onChange of the Horizon range input (5..50, step 5).
HorizonSlider(pos) ==
    /\ Op("NetWorthEngine", "horizonSlider", 0, NumberText(pos))
    /\ horizon' = ParseInt(NumberText(pos))
    /\ UNCHANGED <<assets, liabilities, totalAssets, totalLiabilities, netWorth,
                   growthRate, yearlyInvestment, fsVars, pitVars>>

\* handleReset of NetWorthEngine (the first variant has the Reset All button).
ZeroValues(items) == [i \in 1..Len(items) |-> [items[i] EXCEPT !.value = Zero]]

HandleReset ==
    /\ variant = 1
    /\ Op("NetWorthEngine", "handleReset", 0, <<>>)
    /\ assets' = ZeroValues(assets)
    /\ liabilities' = ZeroValues(liabilities)
    /\ totalAssets' = TotalOf(assets')
    /\ totalLiabilities' = TotalOf(liabilities')
    /\ netWorth' = NetWorthOf(totalAssets', totalLiabilities')
    /\ growthRate' = Num(6)
    /\ horizon' = Num(20)
    /\ yearlyInvestment' = Zero
    /\ UNCHANGED <<fsVars, pitVars>>

NetWorthEngineNext ==
    \/ \E index \in 1..Len(AssetNames), value \in CurrencyTexts :
          HandleAssetInputChange(index, value)
    \/ \E index \in 1..Len(LiabilityNames), value \in CurrencyTexts :
          HandleLiabilityInputChange(index, value)
    \/ \E index \in 1..Len(AssetNames) : AssetBlur(index)
    \/ \E index \in 1..Len(LiabilityNames) : LiabilityBlur(index)
    \/ \E index \in 1..Len(AssetNames) :
          \E pos \in SliderStops(AssetSliderMax(variant, assets[index])) :
             AssetSlider(index, pos)
    \/ \E index \in 1..Len(LiabilityNames) :
          \E pos \in SliderStops(LiabilitySliderMaxOf(variant, liabilities[index])) :
             LiabilitySlider(index, pos)
    \/ \E k \in GrowthStops : GrowthSlider("NetWorthEngine", k)
    \/ \E value \in CurrencyTexts : YearlyInvestmentInput(value)
    \/ YearlyInvestmentBlur
    \/ \E pos \in YearlyInvestmentStops : YearlyInvestmentSlider(pos)
    \/ \E pos \in HorizonStops : HorizonSlider(pos)
    \/ HandleReset

\* -------------------------------------------------------- FreedomScorecard
\* passiveIncome >= targetLifestyle && targetLifestyle > 0
FreedomReached(passive, target) == Geq(passive, target) /\ Greater(target, Zero)

\* The effect without the test of targetLifestyle > 0.
CelebrationEffectAnyTarget(passive, target) ==
    IF Geq(passive, target)
    THEN /\ hasReachedFreedom' = TRUE
         /\ showCelebration' = (IF hasReachedFreedom THEN showCelebration ELSE TRUE)
    ELSE /\ hasReachedFreedom' = FALSE
         /\ UNCHANGED showCelebration

\* The effect without the test of hasReachedFreedom.
CelebrationEffectEveryRender(passive, target) ==
    IF FreedomReached(passive, target)
    THEN /\ hasReachedFreedom' = TRUE
         /\ showCelebration' = TRUE
    ELSE /\ hasReachedFreedom' = FALSE
         /\ UNCHANGED showCelebration

\* The celebration effect, run after a render in which passiveIncome or
\* targetLifestyle changed, and run again after its own setHasReachedFreedom
\* until nothing changes: the state it leaves behind.
CelebrationEffect(passive, target) ==
    IF FreedomReached(passive, target)
    THEN /\ hasReachedFreedom' = TRUE
         /\ showCelebration' = (IF hasReachedFreedom THEN showCelebration ELSE TRUE)
    ELSE /\ hasReachedFreedom' = FALSE
         /\ UNCHANGED showCelebration

\* onChange of a currency text field: set(parseCurrency(e.target.value))
TargetLifestyleInput(value) ==
    /\ Op("FreedomScorecard", "targetLifestyleInput", 0, value)
    /\ targetLifestyle' = ParseCurrency(value)
    /\ CelebrationEffect(passiveIncome, targetLifestyle')
    /\ UNCHANGED <<passiveIncome, activeIncome, savingsRate, growthRate,
                   nweVars, pitVars>>

PassiveIncomeInput(value) ==
    /\ Op("FreedomScorecard", "passiveIncomeInput", 0, value)
    /\ passiveIncome' = ParseCurrency(value)
    /\ CelebrationEffect(passiveIncome', targetLifestyle)
    /\ UNCHANGED <<targetLifestyle, activeIncome, savingsRate, growthRate,
                   nweVars, pitVars>>

\* activeIncome and savingsRate are no dependency of the celebration effect.
ActiveIncomeInput(value) ==
    /\ Op("FreedomScorecard", "activeIncomeInput", 0, value)
    /\ activeIncome' = ParseCurrency(value)
    /\ UNCHANGED <<targetLifestyle, passiveIncome, savingsRate, growthRate,
                   celebrationVars, nweVars, pitVars>>

\* onChange of a currency range input (0..1000000): set(parseFloat(...))
TargetLifestyleSlider(pos) ==
    /\ Op("FreedomScorecard", "targetLifestyleSlider", 0, NumberText(pos))
    /\ targetLifestyle' = ParseFloat(NumberText(pos))
    /\ CelebrationEffect(passiveIncome, targetLifestyle')
    /\ UNCHANGED <<passiveIncome, activeIncome, savingsRate, growthRate,
                   nweVars, pitVars>>

PassiveIncomeSlider(pos) ==
    /\ Op("FreedomScorecard", "passiveIncomeSlider", 0, NumberText(pos))
    /\ passiveIncome' = ParseFloat(NumberText(pos))
    /\ CelebrationEffect(passiveIncome', targetLifestyle)
    /\ UNCHANGED <<targetLifestyle, activeIncome, savingsRate, growthRate,
                   nweVars, pitVars>>

ActiveIncomeSlider(pos) ==
    /\ Op("FreedomScorecard", "activeIncomeSlider", 0, NumberText(pos))
    /\ activeIncome' = ParseFloat(NumberText(pos))
    /\ UNCHANGED <<targetLifestyle, passiveIncome, savingsRate, growthRate,
                   celebrationVars, nweVars, pitVars>>

\* onChange of the savings-rate range input (0..100, step 1).
SavingsRateSlider(pos) ==
    /\ Op("FreedomScorecard", "savingsRateSlider", 0, NumberText(pos))
    /\ savingsRate' = ParseInt(NumberText(pos))
    /\ UNCHANGED <<targetLifestyle, passiveIncome, activeIncome, growthRate,
                   celebrationVars, nweVars, pitVars>>

\* closeCelebration: the modal's backdrop, its close button and its
\* "Continue" button, all rendered only while showCelebration. It is not
\* counted in nOps: it is enabled once for every time the modal opened.
CloseCelebration ==
    /\ mounted = "FreedomScorecard"
    /\ showCelebration
    /\ showCelebration' = FALSE
    /\ lastOp' = [op |-> "closeCelebration", index |-> 0, text |-> <<>>]
    /\ UNCHANGED <<targetLifestyle, passiveIncome, activeIncome, savingsRate,
                   hasReachedFreedom, growthRate, nweVars, pitVars>>
    /\ UNCHANGED <<nOps, mounted, variant, clockVars, derivedVars, pageVars>>

FreedomScorecardNext ==
    \/ \E value \in CurrencyTexts : TargetLifestyleInput(value)
    \/ \E value \in CurrencyTexts : PassiveIncomeInput(value)
    \/ \E value \in CurrencyTexts : ActiveIncomeInput(value)
    \/ \E pos \in SliderStops(ScorecardSliderMax) : TargetLifestyleSlider(pos)
    \/ \E pos \in SliderStops(ScorecardSliderMax) : PassiveIncomeSlider(pos)
    \/ \E pos \in SliderStops(ScorecardSliderMax) : ActiveIncomeSlider(pos)
    \/ \E pos \in SavingsStops : SavingsRateSlider(pos)
    \/ \E k \in GrowthStops : GrowthSlider("FreedomScorecard", k)
    \/ CloseCelebration

\* ---------------------------------------------------- PassiveIncomeTracker
LifestyleCostInput(value) ==
    /\ Op("PassiveIncomeTracker", "lifestyleCostInput", 0, value)
    /\ lifestyleCost' = ParseCurrency(value)
    /\ UNCHANGED <<currentPassiveIncome, growthRate, nweVars, fsVars>>

LifestyleCostBlur ==
    /\ Op("PassiveIncomeTracker", "lifestyleCostBlur", 0, <<>>)
    /\ lifestyleCost' =
         IF CurrencyInputIsEmpty(lifestyleCost) THEN Zero ELSE lifestyleCost
    /\ UNCHANGED <<currentPassiveIncome, growthRate, nweVars, fsVars>>

LifestyleCostSlider(pos) ==
    /\ Op("PassiveIncomeTracker", "lifestyleCostSlider", 0, NumberText(pos))
    /\ lifestyleCost' = ParseFloat(NumberText(pos))
    /\ UNCHANGED <<currentPassiveIncome, growthRate, nweVars, fsVars>>

CurrentPassiveIncomeInput(value) ==
    /\ Op("PassiveIncomeTracker", "currentPassiveIncomeInput", 0, value)
    /\ currentPassiveIncome' = ParseCurrency(value)
    /\ UNCHANGED <<lifestyleCost, growthRate, nweVars, fsVars>>

CurrentPassiveIncomeBlur ==
    /\ Op("PassiveIncomeTracker", "currentPassiveIncomeBlur", 0, <<>>)
    /\ currentPassiveIncome' =
         IF CurrencyInputIsEmpty(currentPassiveIncome) THEN Zero
         ELSE currentPassiveIncome
    /\ UNCHANGED <<lifestyleCost, growthRate, nweVars, fsVars>>

CurrentPassiveIncomeSlider(pos) ==
    /\ Op("PassiveIncomeTracker", "currentPassiveIncomeSlider", 0, NumberText(pos))
    /\ currentPassiveIncome' = ParseFloat(NumberText(pos))
    /\ UNCHANGED <<lifestyleCost, growthRate, nweVars, fsVars>>

\* onChange of the growth-rate text field: setGrowthRate(parsePercentage(...))
GrowthRateInput(value) ==
    /\ Op("PassiveIncomeTracker", "growthRateInput", 0, value)
    /\ growthRate' = ParsePercentage(value)
    /\ UNCHANGED <<lifestyleCost, currentPassiveIncome, nweVars, fsVars>>

\* formatPercentageInput(value) === '' exactly for 0.
GrowthRateBlur ==
    /\ Op("PassiveIncomeTracker", "growthRateBlur", 0, <<>>)
    /\ growthRate' = IF growthRate = Zero THEN Zero ELSE growthRate
    /\ UNCHANGED <<lifestyleCost, currentPassiveIncome, nweVars, fsVars>>

\* handleReset of PassiveIncomeTracker
TrackerReset ==
    /\ Op("PassiveIncomeTracker", "handleReset", 0, <<>>)
    /\ lifestyleCost' = Zero
    /\ currentPassiveIncome' = Zero
    /\ growthRate' = Num(7)
    /\ UNCHANGED <<nweVars, fsVars>>

PassiveIncomeTrackerNext ==
    \/ \E value \in CurrencyTexts : LifestyleCostInput(value)
    \/ LifestyleCostBlur
    \/ \E pos \in SliderStops(TrackerSliderMax) : LifestyleCostSlider(pos)
    \/ \E value \in CurrencyTexts : CurrentPassiveIncomeInput(value)
    \/ CurrentPassiveIncomeBlur
    \/ \E pos \in SliderStops(TrackerSliderMax) : CurrentPassiveIncomeSlider(pos)
    \/ \E value \in PercentageTexts : GrowthRateInput(value)
    \/ GrowthRateBlur
    \/ \E k \in GrowthStops : GrowthSlider("PassiveIncomeTracker", k)
    \/ TrackerReset

\* ------------------------------------------------- the page behind the gate
\* Every operation is one user event on the page; what it leaves on screen is
\* the login form or the selected tab's component, mounted with its initial
\* state. An operation names it last, after the state it renders from.
PageOp(name, text) ==
    /\ nOps < MaxPageOps
    /\ nOps' = nOps + 1
    /\ lastOp' = [op |-> name, index |-> 0, text |-> text]
    /\ mounted' = GateContent(isAuthenticated', TabContent(activeTab'))
    /\ growthRate' = InitialGrowthRate(TabContent(activeTab'))
    /\ UNCHANGED <<variant, nweVars, fsVars, pitVars, clockVars, derivedVars,
                   expectedPassword>>

\* onChange of the password field: setPassword(e.target.value); setError('')
PasswordInput(value) ==
    /\ ~isAuthenticated
    /\ password' = value
    /\ error' = ""
    /\ UNCHANGED <<isAuthenticated, activeTab, darkMode>>
    /\ PageOp("passwordInput", value)

\* handleLogin, from the "Log in" button
HandleLogin ==
    /\ ~isAuthenticated
    /\ IF PasswordMatches(password, expectedPassword)
       THEN /\ isAuthenticated' = TRUE
            /\ error' = ""
            /\ password' = <<>>
       ELSE /\ error' = IncorrectPassword
            /\ password' = <<>>
            /\ UNCHANGED isAuthenticated
    /\ UNCHANGED <<activeTab, darkMode>>
    /\ PageOp("handleLogin", password)

\* handleKeyPress: Enter calls handleLogin, every other key does nothing here
HandleKeyPress(key) ==
    /\ ~isAuthenticated
    /\ IF key = "Enter"
       THEN IF PasswordMatches(password, expectedPassword)
            THEN /\ isAuthenticated' = TRUE
                 /\ error' = ""
                 /\ password' = <<>>
            ELSE /\ error' = IncorrectPassword
                 /\ password' = <<>>
                 /\ UNCHANGED isAuthenticated
       ELSE UNCHANGED <<isAuthenticated, error, password>>
    /\ UNCHANGED <<activeTab, darkMode>>
    /\ PageOp("handleKeyPress", <<key>>)

\* onClick of a tab button: setActiveTab('networth'), setActiveTab('freedom')
SetActiveTab(tab) ==
    /\ isAuthenticated
    /\ activeTab' = tab
    /\ UNCHANGED <<darkMode, password, error, isAuthenticated>>
    /\ PageOp("setActiveTab", <<tab>>)

ToggleDarkMode ==
    /\ isAuthenticated
    /\ darkMode' = ~darkMode
    /\ UNCHANGED <<activeTab, password, error, isAuthenticated>>
    /\ PageOp("toggleDarkMode", <<>>)

PageNext ==
    \/ \E value \in PasswordTexts : PasswordInput(value)
    \/ HandleLogin
    \/ \E key \in {"Enter", "a"} : HandleKeyPress(key)
    \/ \E tab \in Tabs : SetActiveTab(tab)
    \/ ToggleDarkMode

\* --------------------------------------------------------- derived values
\* The last period the independence search looks at.
SearchBound == 50

\* 1 + growthRate / 100
GrowthFactor(g) == Add(Num(1), Div(g, Num(100)))

\* The point with the contributions never compounded.
ProjectionPointLinear(nw, g, yi, year) ==
    [year |-> year,
     value |-> Add(Mul(nw, MathPow(GrowthFactor(g), year)),
                   IF year > 0 /\ Greater(yi, Zero) THEN Mul(yi, Num(year)) ELSE Zero)]

\* The point with nothing compounded.
ProjectionPointNoCompounding(nw, g, yi, year) ==
    [year |-> year,
     value |-> Add(nw, IF Greater(yi, Zero) THEN Mul(yi, Num(year)) ELSE Zero)]

\* The point with the net worth compounded to the end of the year.
ProjectionPointEndOfYear(nw, g, yi, year) ==
    [year |-> year,
     value |-> Add(Mul(nw, MathPow(GrowthFactor(g), year + 1)),
                   IF Greater(yi, Zero) THEN Mul(yi, Num(year + 1)) ELSE Zero)]

\* projectionData of NetWorthEngine: the point pushed for one year.
ProjectionPoint(nw, g, yi, year) ==
    LET rate == Div(g, Num(100))
        compoundedNetWorth == Mul(nw, MathPow(Add(Num(1), rate), year))
        investmentValue ==
            IF year > 0 /\ Greater(yi, Zero) /\ Greater(rate, Zero)
            THEN Div(Mul(yi, Sub(MathPow(Add(Num(1), rate), year), Num(1))), rate)
            ELSE IF year > 0 /\ Greater(yi, Zero)
            THEN Mul(yi, Num(year))
            ELSE Zero
        totalValue == Add(compoundedNetWorth, investmentValue)
    IN  [year |-> year, value |-> totalValue]

\* The loop that stops before the horizon: year < horizon.
ProjectionDataExclusive(nw, g, h, yi) ==
    [i \in 1..IntOf(h) |-> ProjectionPoint(nw, g, yi, i - 1)]

\* for (let year = 0; year <= horizon; year++) data.push(...): one point
\* for each whole year 0..horizon, in ascending order.
ProjectionData(nw, g, h, yi) ==
    [i \in 1..(IntOf(h) + 1) |-> ProjectionPoint(nw, g, yi, i - 1)]

\* The loop with the income grown before it is compared.
RECURSIVE FreedomDateLoopGrowFirst(_, _, _, _, _)
FreedomDateLoopGrowFirst(target, g, cy, year, currentPassive) ==
    IF year > SearchBound THEN BeyondText
    ELSE LET grown == Mul(currentPassive, GrowthFactor(g))
         IN  IF Geq(grown, target) THEN MonthYear(10, cy + year)
             ELSE FreedomDateLoopGrowFirst(target, g, cy, year + 1, grown)

\* The loop that answers with its last year when nothing was found.
RECURSIVE FreedomDateLoopLastYear(_, _, _, _, _)
FreedomDateLoopLastYear(target, g, cy, year, currentPassive) ==
    IF year > SearchBound THEN MonthYear(10, cy + SearchBound)
    ELSE IF Geq(currentPassive, target) THEN MonthYear(10, cy + year)
    ELSE FreedomDateLoopLastYear(target, g, cy, year + 1,
                                 Mul(currentPassive, GrowthFactor(g)))

\* yearsToProject of the two scorecards' charts
YearsToProject == 20

\* currentPassive after n rounds of currentPassive * (1 + growthRate / 100)
RECURSIVE PassiveAfter(_, _, _)
PassiveAfter(currentPassive, g, n) ==
    IF n = 0 \/ currentPassive.m = 0 THEN currentPassive
    ELSE PassiveAfter(Mul(currentPassive, GrowthFactor(g)), g, n - 1)

\* The chart that grows the income before its first point.
ChartDataGrownFirst(target, passive, g, cy) ==
    [i \in 1..(YearsToProject + 1) |->
        [year |-> cy + (i - 1),
         lifestyle |-> target,
         passive |-> PassiveAfter(passive, g, i)]]

\* projectionData of PassiveIncomeTracker: one point for each year
\* 0..yearsToProject.
ChartData(target, passive, g, cy) ==
    [i \in 1..(YearsToProject + 1) |->
        [year |-> cy + (i - 1),
         lifestyle |-> target,
         passive |-> PassiveAfter(passive, g, i - 1)]]

\* The chart whose passive line adds the yearly savings.
ScorecardChartDataWithSavings(target, passive, active, savings, g, cy) ==
    LET currentSavings == Mul(active, Div(savings, Num(100)))
    IN  [i \in 1..(YearsToProject + 1) |->
            [year |-> cy + (i - 1),
             lifestyle |-> target,
             passive |-> Add(PassiveAfter(passive, g, i - 1),
                             Mul(currentSavings, Num(i - 1)))]]

\* The loop of FreedomScorecard's projectionData from year on.
RECURSIVE ScorecardChartFrom(_, _, _, _, _, _)
ScorecardChartFrom(target, g, cy, year, currentPassive, data) ==
    IF year > YearsToProject THEN data
    ELSE ScorecardChartFrom(target, g, cy, year + 1,
                            Mul(currentPassive, GrowthFactor(g)),
                            Append(data, [year |-> cy + year,
                                          lifestyle |-> target,
                                          passive |-> currentPassive]))

\* projectionData of FreedomScorecard: currentSavings is computed from
\* activeIncome and savingsRate and read by no point.
ScorecardChartData(target, passive, active, savings, g, cy) ==
    LET currentSavings == Mul(active, Div(savings, Num(100)))
    IN  ScorecardChartFrom(target, g, cy, 0, passive, <<>>)

\* The loop that stops at the last year of the chart.
RECURSIVE FreedomDateLoopChartWindow(_, _, _, _, _)
FreedomDateLoopChartWindow(target, g, cy, year, currentPassive) ==
    IF year > YearsToProject THEN BeyondText
    ELSE IF Geq(currentPassive, target) THEN MonthYear(10, cy + year)
    ELSE FreedomDateLoopChartWindow(target, g, cy, year + 1,
                                    Mul(currentPassive, GrowthFactor(g)))

\* freedomDate of FreedomScorecard: the loop from year on.
RECURSIVE FreedomDateLoop(_, _, _, _, _)
FreedomDateLoop(target, g, cy, year, currentPassive) ==
    IF year > SearchBound THEN BeyondText
    ELSE IF Geq(currentPassive, target) THEN MonthYear(10, cy + year)
    ELSE FreedomDateLoop(target, g, cy, year + 1,
                         Mul(currentPassive, GrowthFactor(g)))

FreedomDate(target, passive, g, cy) == FreedomDateLoop(target, g, cy, 0, passive)

\* freedomPercentage of FreedomScorecard
ScorecardFreedomPercentage(passive, target) ==
    IF Geq(passive, target) THEN Num(100)
    ELSE MathMin(Num(100), MathRound(Mul(Div(passive, target), Num(100))))

\* The percentage with the ceiling of 300.
TrackerFreedomPercentage300(passive, cost) ==
    IF cost = Zero THEN Zero
    ELSE MathMin(Num(300), MathRound(Mul(Div(passive, cost), Num(100))))

\* The percentage of half the lifestyle cost.
TrackerFreedomPercentageOfHalf(passive, cost) ==
    IF cost = Zero THEN Zero
    ELSE MathMin(Num(100), MathRound(Mul(Div(passive, cost), Num(200))))

\* freedomPercentage of PassiveIncomeTracker
TrackerFreedomPercentage(passive, cost) ==
    IF cost = Zero THEN Zero
    ELSE MathMin(Num(100), MathRound(Mul(Div(passive, cost), Num(100))))

\* The tracker's loop that stops at the last year of the chart.
RECURSIVE IndependenceLoopChartWindow(_, _, _, _, _)
IndependenceLoopChartWindow(cost, g, cy, year, projectedPassive) ==
    IF year > YearsToProject THEN BeyondText
    ELSE IF Geq(projectedPassive, cost) THEN MonthYear(10, cy + year)
    ELSE IndependenceLoopChartWindow(cost, g, cy, year + 1,
                                     Mul(projectedPassive, GrowthFactor(g)))

\* The loop that counts a year before the first comparison.
RECURSIVE IndependenceLoopFromOne(_, _, _, _, _)
IndependenceLoopFromOne(cost, g, cy, year, projectedPassive) ==
    IF year > SearchBound THEN BeyondText
    ELSE IF Geq(projectedPassive, cost) THEN MonthYear(10, cy + year + 1)
    ELSE IndependenceLoopFromOne(cost, g, cy, year + 1,
                                 Mul(projectedPassive, GrowthFactor(g)))

\* financialIndependenceYear of PassiveIncomeTracker: the loop from year on.
RECURSIVE IndependenceLoop(_, _, _, _, _)
IndependenceLoop(cost, g, cy, year, projectedPassive) ==
    IF year > SearchBound THEN BeyondText
    ELSE IF Geq(projectedPassive, cost) THEN MonthYear(10, cy + year)
    ELSE IndependenceLoop(cost, g, cy, year + 1,
                          Mul(projectedPassive, GrowthFactor(g)))

FinancialIndependenceYear(cost, passive, g, cy, cm) ==
    IF Geq(passive, cost) /\ Greater(cost, Zero) THEN MonthYear(cm, cy)
    ELSE IF cost = Zero \/ passive = Zero \/ g = Zero THEN Null
    ELSE IndependenceLoop(cost, g, cy, 0, passive)

\* The render of each component computes its derived values from its state.
RenderNetWorthEngine ==
    /\ mounted = "NetWorthEngine" /\ ~rendered
    /\ rendered' = TRUE
    /\ projectionData' = ProjectionData(netWorth, growthRate, horizon, yearlyInvestment)
    /\ UNCHANGED <<freedomDate, freedomPercentage, financialIndependenceYear>>

RenderFreedomScorecard ==
    /\ mounted = "FreedomScorecard" /\ ~rendered
    /\ rendered' = TRUE
    /\ freedomDate' = FreedomDate(targetLifestyle, passiveIncome, growthRate, currentYear)
    /\ freedomPercentage' = ScorecardFreedomPercentage(passiveIncome, targetLifestyle)
    /\ projectionData' =
         ScorecardChartData(targetLifestyle, passiveIncome, activeIncome,
                            savingsRate, growthRate, currentYear)
    /\ UNCHANGED financialIndependenceYear

RenderPassiveIncomeTracker ==
    /\ mounted = "PassiveIncomeTracker" /\ ~rendered
    /\ rendered' = TRUE
    /\ financialIndependenceYear' =
         FinancialIndependenceYear(lifestyleCost, currentPassiveIncome,
                                   growthRate, currentYear, currentMonth)
    /\ freedomPercentage' = TrackerFreedomPercentage(currentPassiveIncome, lifestyleCost)
    /\ projectionData' =
         ChartData(lifestyleCost, currentPassiveIncome, growthRate, currentYear)
    /\ UNCHANGED freedomDate

Render ==
    /\ (RenderNetWorthEngine \/ RenderFreedomScorecard \/ RenderPassiveIncomeTracker)
    /\ UNCHANGED <<mounted, variant, nweVars, fsVars, pitVars, growthRate,
                   clockVars, pageVars, lastOp, nOps>>

\* Values the fields of a component can hold when it renders.
EngineAmounts ==
    { Zero, ParseCurrency(<<"1", ".", "5">>), ParseCurrency(<<"1", "7", ".", "5">>),
      Num(500), Num(49800), Num(50000), Num(100000),
      ParseCurrency(SubSeq(LongDigits, 1, MaxExponent + 3)), ParseCurrency(LongDigits) }

EngineGrowthRates ==
    { ParseFloat(HalfStepText(k)) : k \in {0, 1, 14, 2 * GrowthSliderMax} }

\* Every position of the horizon slider.
HorizonPositions ==
    { h \in HorizonSliderMin..HorizonSliderMax :
         (h - HorizonSliderMin) % HorizonSliderStep = 0 }

EngineHorizons == { ParseInt(NumberText(h)) : h \in HorizonPositions }

EngineInvestments ==
    { Zero, Num(YearlyInvestmentSliderStep), Num(YearlyInvestmentSliderMax) }

\* The states in which the derived values are computed: every component with
\* its fields drawn from the values above.
EngineInit ==
    /\ mounted \in Components
    /\ variant = 1
    /\ growthRate \in EngineGrowthRates
    /\ currentYear \in (IF mounted = "NetWorthEngine" THEN {2026} ELSE ClockYears)
    /\ currentMonth \in (IF mounted = "PassiveIncomeTracker" THEN ClockMonths ELSE {10})
    /\ IF mounted = "NetWorthEngine"
       THEN /\ \E a \in {Zero, Num(500), Num(100000),
                          ParseCurrency(SubSeq(LongDigits, 1, MaxExponent + 3))},
                    l \in {Zero, Num(50000)} :
                 /\ assets = WithValue(InitialAssets(variant), 1, a)
                 /\ liabilities = WithValue(InitialLiabilities(variant), 1, l)
            /\ horizon \in EngineHorizons
            /\ yearlyInvestment \in EngineInvestments
       ELSE /\ assets = InitialAssets(variant)
            /\ liabilities = InitialLiabilities(variant)
            /\ horizon = Num(20)
            /\ yearlyInvestment = Zero
    /\ totalAssets = TotalOf(assets)
    /\ totalLiabilities = TotalOf(liabilities)
    /\ netWorth = NetWorthOf(totalAssets, totalLiabilities)
    /\ IF mounted = "FreedomScorecard"
       THEN targetLifestyle \in EngineAmounts /\ passiveIncome \in EngineAmounts
       ELSE targetLifestyle = Zero /\ passiveIncome = Zero
    /\ activeIncome = Zero
    /\ savingsRate = Num(15)
    /\ IF mounted = "PassiveIncomeTracker"
       THEN lifestyleCost \in EngineAmounts /\ currentPassiveIncome \in EngineAmounts
       ELSE lifestyleCost = Zero /\ currentPassiveIncome = Zero
    /\ showCelebration = FALSE
    /\ hasReachedFreedom = FALSE
    \* the component is followed on its own, past the password gate
    /\ activeTab = (IF mounted = "FreedomScorecard" THEN "freedom" ELSE "networth")
    /\ darkMode = FALSE
    /\ password = <<>>
    /\ error = ""
    /\ isAuthenticated = TRUE
    /\ expectedPassword = ExpectedPassword(currentMonth)
    /\ NotRendered
    /\ lastOp = [op |-> "mount", index |-> 0, text |-> <<>>]
    /\ nOps = 0

Next == NetWorthEngineNext \/ FreedomScorecardNext \/ PassiveIncomeTrackerNext

Spec == Init /\ [][Next]_vars

EngineNext == Render

SpecEngine == EngineInit /\ [][EngineNext]_vars

\* The page after it loads: the login form, the first tab selected, and the
\* dark class of the document as the mount effect finds it.
PageInit ==
    /\ mounted = "PasswordGate"
    /\ variant \in {1, 2}
    /\ assets = InitialAssets(variant)
    /\ liabilities = InitialLiabilities(variant)
    /\ growthRate = InitialGrowthRate("NetWorthEngine")
    /\ horizon = Num(20)
    /\ yearlyInvestment = Zero
    /\ totalAssets = TotalOf(assets)
    /\ totalLiabilities = TotalOf(liabilities)
    /\ netWorth = NetWorthOf(totalAssets, totalLiabilities)
    /\ targetLifestyle = Zero
    /\ passiveIncome = Zero
    /\ activeIncome = Zero
    /\ savingsRate = Num(15)
    /\ lifestyleCost = Zero
    /\ currentPassiveIncome = Zero
    /\ currentYear = 2026
    /\ currentMonth \in ClockMonths
    /\ showCelebration = FALSE
    /\ hasReachedFreedom = FALSE
    /\ activeTab = "networth"
    /\ darkMode \in BOOLEAN
    /\ password = <<>>
    /\ error = ""
    /\ isAuthenticated = FALSE
    /\ expectedPassword = ExpectedPassword(currentMonth)
    /\ NotRendered
    /\ lastOp = [op |-> "mount", index |-> 0, text |-> <<>>]
    /\ nOps = 0

SpecPage == PageInit /\ [][PageNext]_vars

\* Values targetLifestyle and passiveIncome hold after edits.
ScorecardAmounts == { Zero, Num(500) }

\* FreedomScorecard somewhere in its use: hasReachedFreedom is what the
\* celebration effect last left, and the modal is open or closed.
ScorecardInit ==
    /\ mounted = "FreedomScorecard"
    /\ variant = 1
    /\ assets = InitialAssets(variant)
    /\ liabilities = InitialLiabilities(variant)
    /\ growthRate = InitialGrowthRate(mounted)
    /\ horizon = Num(20)
    /\ yearlyInvestment = Zero
    /\ totalAssets = TotalOf(assets)
    /\ totalLiabilities = TotalOf(liabilities)
    /\ netWorth = NetWorthOf(totalAssets, totalLiabilities)
    /\ targetLifestyle \in ScorecardAmounts
    /\ passiveIncome \in ScorecardAmounts
    /\ activeIncome = Zero
    /\ savingsRate = Num(15)
    /\ lifestyleCost = Zero
    /\ currentPassiveIncome = Zero
    /\ currentYear = 2026
    /\ currentMonth = 10
    /\ showCelebration \in BOOLEAN
    /\ hasReachedFreedom = FreedomReached(passiveIncome, targetLifestyle)
    /\ activeTab = "freedom"
    /\ darkMode = FALSE
    /\ password = <<>>
    /\ error = ""
    /\ isAuthenticated = TRUE
    /\ expectedPassword = ExpectedPassword(currentMonth)
    /\ NotRendered
    /\ lastOp = [op |-> "mount", index |-> 0, text |-> <<>>]
    /\ nOps = 0

SpecScorecard == ScorecardInit /\ [][FreedomScorecardNext]_vars

\* ------------------------------------------------------------------ claims
IsNetWorthEngine == mounted = "NetWorthEngine"
IsScorecard == mounted = "FreedomScorecard"
IsTracker == mounted = "PassiveIncomeTracker"

\* The income compounded over t periods: passive * (1 + g/100)^t, one
\* multiplication per period.
RECURSIVE CompoundFrom(_, _, _)
CompoundFrom(value, factor, t) ==
    IF t = 0 \/ value.m = 0 THEN value
    ELSE CompoundFrom(Mul(value, factor), factor, t - 1)

TrackedAt(passive, g, t) == CompoundFrom(passive, GrowthFactor(g), t)

\* The target, the income and the resolver's result of the mounted scorecard.
ResolverTarget == IF IsScorecard THEN targetLifestyle ELSE lifestyleCost
ResolverIncome == IF IsScorecard THEN passiveIncome ELSE currentPassiveIncome
ResolverResult == IF IsScorecard THEN freedomDate ELSE financialIndependenceYear
ResolverRendered == rendered /\ (IsScorecard \/ IsTracker)

\* C1: in NetWorthEngine totalAssets is the sum of the asset values,
\* totalLiabilities the sum of the liability values and netWorth their
\* difference, in every reachable state; the values 1,421,000 + 1,091,000 and
\* 607,000 give 2,512,000 / 607,000 / 1,905,000.
C1_TotalsAreSums ==
    IsNetWorthEngine =>
      /\ totalAssets =
           Add(Add(Add(Add(Add(Zero, assets[1].value), assets[2].value),
                       assets[3].value), assets[4].value), assets[5].value)
      /\ totalLiabilities =
           Add(Add(Add(Add(Add(Zero, liabilities[1].value), liabilities[2].value),
                       liabilities[3].value), liabilities[4].value),
               liabilities[5].value)
      /\ netWorth = Sub(totalAssets, totalLiabilities)
      /\ (assets = InitialAssets(2) /\ liabilities = InitialLiabilities(2)) =>
            /\ totalAssets = Num(2512000)
            /\ totalLiabilities = Num(607000)
            /\ netWorth = Num(1905000)

C1_Witness ==
    /\ IsNetWorthEngine /\ nOps = MaxOps
    /\ lastOp.op = "handleLiabilityInputChange"
    /\ netWorth.m < 0
    /\ totalAssets.m > 0

\* C2: every point t of the NetWorthEngine projection is
\* netWorth * (1+r)^t + contributionValue(t), r = growthRate / 100, with
\* contributionValue(t) = yearlyInvestment * ((1+r)^t - 1) / r for r > 0 and
\* yearlyInvestment * t for r = 0.
C2_ProjectionLaw ==
    (rendered /\ IsNetWorthEngine) =>
      \A t \in 0..IntOf(horizon) :
        LET r == Div(growthRate, Num(100))
            pw == MathPow(Add(Num(1), r), t)
            contributionValue ==
                IF Greater(r, Zero)
                THEN Div(Mul(yearlyInvestment, Sub(pw, Num(1))), r)
                ELSE Mul(yearlyInvestment, Num(t))
        IN  /\ t + 1 \in DOMAIN projectionData
            /\ projectionData[t + 1].year = t
            /\ projectionData[t + 1].value = Add(Mul(netWorth, pw), contributionValue)

C2_Witness ==
    /\ rendered /\ IsNetWorthEngine
    /\ growthRate = Zero
    /\ Greater(yearlyInvestment, Zero)
    /\ netWorth.m < 0
    /\ projectionData[Len(projectionData)].value
         = Add(netWorth, Mul(yearlyInvestment, horizon))

\* C3: a period the resolver reports is the smallest one at which the
\* compounded passive income reaches the target: the income is at or above the
\* target at that period and strictly below it at every earlier one.
C3_SmallestPeriod ==
    (ResolverRendered /\ ResolverResult.kind = "date") =>
      LET t == ResolverResult.year - currentYear
      IN  /\ t \in 0..SearchBound
          /\ Geq(TrackedAt(ResolverIncome, growthRate, t), ResolverTarget)
          /\ \A u \in 0..(t - 1) :
                Less(TrackedAt(ResolverIncome, growthRate, u), ResolverTarget)

C3_Witness ==
    /\ ResolverRendered /\ IsScorecard
    /\ freedomDate = MonthYear(10, currentYear + 11)
    /\ passiveIncome = Num(50000) /\ targetLifestyle = Num(100000)

\* C4: with a target <= 0 the resolver reports not-found, whatever the income
\* and the growth rate, in FreedomScorecard and in PassiveIncomeTracker.
C4_UnsetTargetNotFound ==
    (ResolverRendered /\ ~Greater(ResolverTarget, Zero)) =>
       ResolverResult.kind # "date"

\* C5: with a target <= 0 the freedom percentage is 0, for every current
\* value, in FreedomScorecard and in PassiveIncomeTracker.
C5_UnsetTargetZeroPercent ==
    (ResolverRendered /\ ~Greater(ResolverTarget, Zero)) =>
       freedomPercentage = Zero

\* C6: for a current value >= 0 and a target > 0, both finite numbers, the
\* freedom percentage is round(current / target * 100) clamped to [0, 100];
\* it is 0 for current 0 and 100 for current 150 and target 100.
ClampedPercent(current, target) ==
    MathMax(Zero, MathMin(Num(100), MathRound(Mul(Div(current, target), Num(100)))))

C7_LeadingMinusStoresZero ==
    /\ (lastOp.op = "handleAssetInputChange"
          /\ lastOp.text # <<>> /\ Head(lastOp.text) = "-")
         => assets[lastOp.index].value = Zero
    /\ (lastOp.op = "handleLiabilityInputChange"
          /\ lastOp.text # <<>> /\ Head(lastOp.text) = "-")
         => liabilities[lastOp.index].value = Zero

\* C8: an edit of a currency text field with a text that holds no digit
\* stores 0 in that field and leaves every other stored value as it was.
Fields ==
    ({"asset", "liability"} \X (1..Len(AssetNames)))
      \cup ({"yearlyInvestment", "growthRate", "horizon", "targetLifestyle",
             "passiveIncome", "activeIncome", "savingsRate", "lifestyleCost",
             "currentPassiveIncome"} \X {0})

Stored(f) ==
    CASE f[1] = "asset" -> assets[f[2]].value
      [] f[1] = "liability" -> liabilities[f[2]].value
      [] f[1] = "yearlyInvestment" -> yearlyInvestment
      [] f[1] = "growthRate" -> growthRate
      [] f[1] = "horizon" -> horizon
      [] f[1] = "targetLifestyle" -> targetLifestyle
      [] f[1] = "passiveIncome" -> passiveIncome
      [] f[1] = "activeIncome" -> activeIncome
      [] f[1] = "savingsRate" -> savingsRate
      [] f[1] = "lifestyleCost" -> lifestyleCost
      [] f[1] = "currentPassiveIncome" -> currentPassiveIncome

\* The field a currency text edit writes.
CurrencyTextOps ==
    [handleAssetInputChange |-> "asset",
     handleLiabilityInputChange |-> "liability",
     yearlyInvestmentInput |-> "yearlyInvestment",
     targetLifestyleInput |-> "targetLifestyle",
     passiveIncomeInput |-> "passiveIncome",
     activeIncomeInput |-> "activeIncome",
     lifestyleCostInput |-> "lifestyleCost",
     currentPassiveIncomeInput |-> "currentPassiveIncome"]

EditedField(op) == <<CurrencyTextOps[op.op], op.index>>

NoDigit(text) == \A i \in 1..Len(text) : text[i] \notin Digits

C8_UnparsableStoresZero ==
    [][ (lastOp'.op \in DOMAIN CurrencyTextOps /\ NoDigit(lastOp'.text)) =>
           \A f \in Fields :
              Stored(f)' = IF f = EditedField(lastOp') THEN Zero ELSE Stored(f)
      ]_vars

C8_Witness ==
    /\ IsNetWorthEngine /\ variant = 2
    /\ lastOp = [op |-> "handleAssetInputChange", index |-> 1,
                 text |-> <<"a", "b", "c">>]
    /\ assets[1].value = Zero
    /\ assets[2].value = Num(1091000)
    /\ totalAssets = Num(1091000)

\* C9: every stored currency value is a number >= 0 in every reachable state.
CurrencyFields ==
    Fields \ (({"growthRate", "horizon", "savingsRate"}) \X {0})

C9_CurrencyNonNegative ==
    \A f \in CurrencyFields : Stored(f) # NaN /\ Stored(f).m >= 0

C9_Witness ==
    /\ IsNetWorthEngine
    /\ lastOp.op = "yearlyInvestmentInput"
    /\ lastOp.text = <<"-", "5", "0", "0">>
    /\ yearlyInvestment = Num(500)

\* C10: for a target > 0, when the compounded income reaches the target at no
\* period 0..50 the resolver's result is 'Beyond 50 years' or null and never a
\* date; a date is returned only when a crossing exists within 0..50.
CrossingExists ==
    \E t \in 0..SearchBound :
       Geq(TrackedAt(ResolverIncome, growthRate, t), ResolverTarget)

C10_NotFoundIsDistinct ==
    ResolverRendered =>
      /\ ResolverResult.kind \in {"date", "Beyond 50 years", "null"}
      /\ (Greater(ResolverTarget, Zero) /\ ~CrossingExists) =>
            /\ ResolverResult \in {BeyondText, Null}
            /\ \A mm \in 0..11, t \in 0..SearchBound :
                  ResolverResult # MonthYear(mm, currentYear + t)
      /\ ResolverResult.kind = "date" => CrossingExists

C10_Witness ==
    /\ ResolverRendered /\ IsScorecard
    /\ Greater(targetLifestyle, Zero) /\ Greater(growthRate, Zero)
    /\ Greater(passiveIncome, Zero)
    /\ ~CrossingExists
    /\ freedomDate = BeyondText

\* C11: the independence search covers the periods 0..50 whatever the chart
\* shows: a first crossing at a period t <= 50, also one with t > 20, is
\* reported as found at t although the 21-point chart has no point for it, and
\* a first crossing after period 50 is reported as not found.
LookAhead == 60

\* The first period t..last at which the income, grown by factor each period,
\* is at or above the target, or -1.
RECURSIVE FirstCrossing(_, _, _, _, _)
FirstCrossing(value, factor, target, t, last) ==
    IF t > last THEN -1
    ELSE IF Geq(value, target) THEN t
    ELSE FirstCrossing(Mul(value, factor), factor, target, t + 1, last)

ResolverFirstCrossing ==
    FirstCrossing(ResolverIncome, GrowthFactor(growthRate), ResolverTarget, 0, LookAhead)

C11_SearchBeyondChart ==
    (ResolverRendered /\ Greater(ResolverTarget, Zero)) =>
      LET t == ResolverFirstCrossing
      IN  /\ t \in 0..SearchBound =>
                ResolverResult.kind = "date" /\ ResolverResult.year = currentYear + t
          /\ t > SearchBound => ResolverResult.kind # "date"
          /\ Len(projectionData) = YearsToProject + 1
          /\ t \in (YearsToProject + 1)..SearchBound =>
                \A i \in DOMAIN projectionData :
                   projectionData[i].year # ResolverResult.year

C11_Witness ==
    /\ ResolverRendered /\ IsTracker
    /\ Greater(lifestyleCost, Zero)
    /\ ResolverFirstCrossing \in (YearsToProject + 1)..SearchBound
    /\ financialIndependenceYear = MonthYear(10, currentYear + ResolverFirstCrossing)
    /\ Len(projectionData) = YearsToProject + 1

\* C12: in every component the stored growth rate stays within [0, 15] after
\* any sequence of slider moves, text edits, blurs and resets.
C12_GrowthRateInRange ==
    /\ Geq(growthRate, Zero)
    /\ Geq(Num(GrowthSliderMax), growthRate)

\* C13: at period 0 every projection equals its initial value: the first point
\* of the NetWorthEngine series is netWorth for every growth rate and every
\* yearly investment, and the first point of the passive-income series is
\* the current passive income.
C13_PeriodZeroIdentity ==
    rendered =>
      /\ IsNetWorthEngine =>
            /\ projectionData[1].year = 0
            /\ projectionData[1].value = netWorth
      /\ (IsScorecard \/ IsTracker) =>
            /\ projectionData[1].year = currentYear
            /\ projectionData[1].passive = ResolverIncome

C13_Witness ==
    /\ rendered /\ IsNetWorthEngine
    /\ Greater(growthRate, Zero)
    /\ Greater(yearlyInvestment, Zero)
    /\ Greater(netWorth, Zero)
    /\ projectionData[1].value = netWorth
    /\ Greater(projectionData[2].value, netWorth)

\* The tracked value of the i-th point of the rendered series, and the value
\* the series starts from.
SeriesValue(i) ==
    IF IsNetWorthEngine THEN projectionData[i].value ELSE projectionData[i].passive

SeriesStart == IF IsNetWorthEngine THEN netWorth ELSE ResolverIncome

C15_SeriesLengths ==
    rendered =>
      /\ IsNetWorthEngine =>
            /\ Len(projectionData) = IntOf(horizon) + 1
            /\ \A i \in 1..Len(projectionData) : projectionData[i].year = i - 1
      /\ (IsScorecard \/ IsTracker) =>
            /\ Len(projectionData) = 21
            /\ \A i \in 1..Len(projectionData) :
                  /\ projectionData[i].year = currentYear + (i - 1)
                  /\ projectionData[i].lifestyle = ResolverTarget

C15_Witness ==
    /\ rendered /\ IsNetWorthEngine
    /\ horizon = Num(HorizonSliderMax - HorizonSliderStep)
    /\ Len(projectionData) = 46
    /\ projectionData[46].year = 45

\* C16: with lifestyle cost 100,000, current passive income 50,000 and growth
\* rate 7 the projection at period 0 is 50,000, period 10 is still below the
\* target, and the resolver reports the first crossing at period 11: the
\* reported year is the current year + 11.
C16_Scenario ==
    (ResolverRendered /\ ResolverTarget = Num(100000)
       /\ ResolverIncome = Num(50000) /\ growthRate = Num(7)) =>
      /\ projectionData[1].passive = Num(50000)
      /\ Less(projectionData[11].passive, Num(100000))
      /\ Geq(projectionData[12].passive, Num(100000))
      /\ ResolverResult = MonthYear(10, currentYear + 11)

C16_Witness ==
    /\ ResolverRendered /\ IsTracker
    /\ lifestyleCost = Num(100000) /\ currentPassiveIncome = Num(50000)
    /\ growthRate = Num(7)
    /\ projectionData[1].passive = Num(50000)
    /\ financialIndependenceYear.kind = "date"
    /\ financialIndependenceYear.year - currentYear = 11

\* C17: no stored or derived value is ever NaN or infinite: the currency
\* fields, the totals and the net worth are finite after every operation, and
\* every point of a rendered series is finite.
C17_AlwaysFinite ==
    /\ \A f \in Fields : IsFinite(Stored(f))
    /\ IsFinite(totalAssets) /\ IsFinite(totalLiabilities) /\ IsFinite(netWorth)
    /\ rendered =>
          /\ \A i \in 1..Len(projectionData) : IsFinite(SeriesValue(i))
          /\ IsFinite(freedomPercentage)

\* C18: every derived value is a function of the explicit inputs alone
\* (balances, target, income, growth rate, horizon, contribution): evaluating
\* it again, at any reading of the clock, gives the value that was rendered.
C18_Deterministic ==
    /\ totalAssets = TotalOf(assets)
    /\ totalLiabilities = TotalOf(liabilities)
    /\ netWorth = NetWorthOf(totalAssets, totalLiabilities)
    /\ rendered =>
         \A cy \in ClockYears, cm \in ClockMonths :
            /\ IsNetWorthEngine =>
                 projectionData =
                    ProjectionData(netWorth, growthRate, horizon, yearlyInvestment)
            /\ IsScorecard =>
                 /\ freedomDate =
                       FreedomDate(targetLifestyle, passiveIncome, growthRate, cy)
                 /\ freedomPercentage =
                       ScorecardFreedomPercentage(passiveIncome, targetLifestyle)
                 /\ projectionData =
                       ChartData(targetLifestyle, passiveIncome, growthRate, cy)
            /\ IsTracker =>
                 /\ financialIndependenceYear =
                       FinancialIndependenceYear(lifestyleCost, currentPassiveIncome,
                                                 growthRate, cy, cm)
                 /\ freedomPercentage =
                       TrackerFreedomPercentage(currentPassiveIncome, lifestyleCost)
                 /\ projectionData =
                       ChartData(lifestyleCost, currentPassiveIncome, growthRate, cy)

\* C19: the clamped value a slider shows never replaces the stored value: a
\* range input shows min(value, max) (max 1,000,000 for Cash, 10,000,000 for
\* Property, 5,000,000 for the other assets and the liabilities) while the
\* totals and netWorth use the stored value, and a stored value changes only
\* by a text edit, a slider move or a blur of its own field, or by a reset.
AssetOps == {"handleAssetInputChange", "assetSlider", "assetBlur"}

LiabilityOps == {"handleLiabilityInputChange", "liabilitySlider", "liabilityBlur"}

ShownWithinMax ==
    (IsNetWorthEngine /\ variant = 1) =>
       /\ AssetSliderMax(1, assets[1]) = 1000000
       /\ AssetSliderMax(1, assets[3]) = 10000000
       /\ \A i \in {2, 4, 5} : AssetSliderMax(1, assets[i]) = 5000000
       /\ \A i \in 1..Len(assets) :
            /\ AssetSliderValue(1, assets[i])
                  = MathMin(assets[i].value, Num(AssetSliderMax(1, assets[i])))
            /\ Geq(totalAssets, assets[i].value)
       /\ \A i \in 1..Len(liabilities) :
            /\ LiabilitySliderMaxOf(1, liabilities[i]) = 5000000
            /\ LiabilitySliderValue(1, liabilities[i])
                  = MathMin(liabilities[i].value, Num(5000000))
            /\ Geq(totalLiabilities, liabilities[i].value)
       /\ netWorth = Sub(totalAssets, totalLiabilities)

StoredChangesOnlyByOwnField ==
    /\ (lastOp'.op = "handleAssetInputChange"
          /\ lastOp'.text = <<"1", "5", "0", "0", "0", "0", "0", ".", "5">>) =>
          /\ assets'[lastOp'.index].value = Num(1500000)
          /\ Geq(totalAssets', Num(1500000))
    /\ \A i \in 1..Len(assets) :
          assets'[i].value # assets[i].value =>
             \/ lastOp'.op \in AssetOps /\ lastOp'.index = i
             \/ lastOp'.op = "handleReset"
    /\ \A i \in 1..Len(liabilities) :
          liabilities'[i].value # liabilities[i].value =>
             \/ lastOp'.op \in LiabilityOps /\ lastOp'.index = i
             \/ lastOp'.op = "handleReset"

C19_SliderClampKeepsStored ==
    []ShownWithinMax /\ [][StoredChangesOnlyByOwnField]_vars

C19_Witness ==
    /\ IsNetWorthEngine /\ variant = 1
    /\ lastOp.op = "handleAssetInputChange" /\ lastOp.index = 2
    /\ Greater(assets[1].value, Num(CashSliderMax))
    /\ IsFinite(assets[1].value)
    /\ AssetSliderValue(1, assets[1]) = Num(CashSliderMax)
    /\ Greater(totalAssets, Num(CashSliderMax))

\* C20: the catalog is fixed: in every reachable state there are exactly the
\* 5 assets Cash, Stocks & ETFs, Property, Super, Other and the 5 liabilities
\* Mortgage, Credit Card, Personal Loans, Margin Loan, Other, in this order;
\* an edit of item i changes only the value of item i, and Reset All sets
\* every value to 0.
NamesOf(items) == [i \in 1..Len(items) |-> items[i].name]

CatalogFixed ==
    /\ NamesOf(assets) = <<"Cash", "Stocks & ETFs", "Property", "Super", "Other">>
    /\ NamesOf(liabilities)
         = <<"Mortgage", "Credit Card", "Personal Loans", "Margin Loan", "Other">>
    /\ \A i \in 1..5 : DOMAIN assets[i] = {"name", "value"}
                        /\ DOMAIN liabilities[i] = {"name", "value"}

EditsOneItem ==
    /\ lastOp'.op \in AssetOps =>
          /\ \A j \in 1..Len(assets) : j # lastOp'.index => assets'[j] = assets[j]
          /\ liabilities' = liabilities
    /\ lastOp'.op \in LiabilityOps =>
          /\ \A j \in 1..Len(liabilities) :
                j # lastOp'.index => liabilities'[j] = liabilities[j]
          /\ assets' = assets
    /\ (lastOp'.op = "handleReset" /\ IsNetWorthEngine) =>
          /\ \A j \in 1..5 : assets'[j].value = Zero /\ liabilities'[j].value = Zero
          /\ NamesOf(assets') = NamesOf(assets)
          /\ NamesOf(liabilities') = NamesOf(liabilities)
    /\ lastOp'.op \notin (AssetOps \cup LiabilityOps \cup {"handleReset"}) =>
          assets' = assets /\ liabilities' = liabilities

C20_FixedCatalog == []CatalogFixed /\ [][EditsOneItem]_vars

C20_Witness ==
    /\ IsNetWorthEngine /\ variant = 1 /\ nOps = MaxOps
    /\ lastOp.op = "handleReset"
    /\ \A j \in 1..5 : assets[j].value = Zero /\ liabilities[j].value = Zero
    /\ CatalogFixed

\* C21: the horizon of NetWorthEngine starts at 20 and is in every reachable
\* state between 5 and 50; it changes only by the horizon slider, to a
\* multiple of 5 between 5 and 50, and by Reset All, which sets horizon 20,
\* growthRate 6 and yearlyInvestment 0.
HorizonInRange == Geq(horizon, Num(5)) /\ Geq(Num(50), horizon)

HorizonChangesBySliderOrReset ==
    /\ horizon' # horizon =>
          \/ /\ lastOp'.op = "horizonSlider"
             /\ \E k \in 1..10 : horizon' = Num(5 * k)
          \/ lastOp'.op = "handleReset" /\ IsNetWorthEngine
    /\ (lastOp'.op = "handleReset" /\ IsNetWorthEngine) =>
          /\ horizon' = Num(20)
          /\ growthRate' = Num(6)
          /\ yearlyInvestment' = Zero

C21_HorizonRange ==
    /\ horizon = Num(20)
    /\ []HorizonInRange
    /\ [][HorizonChangesBySliderOrReset]_vars

C21_Witness ==
    /\ IsNetWorthEngine
    /\ lastOp.op = "horizonSlider"
    /\ horizon = Num(50)

\* C22: for the same current value and the same target, freedomPercentage of
\* FreedomScorecard and freedomPercentage of PassiveIncomeTracker are the same
\* percentage, both with the ceiling 100.
C22_SamePercentage ==
    ResolverRendered =>
       /\ ScorecardFreedomPercentage(ResolverIncome, ResolverTarget)
            = TrackerFreedomPercentage(ResolverIncome, ResolverTarget)
       /\ Geq(Num(100), freedomPercentage)

\* C23: in FreedomScorecard showCelebration is false in the initial state and
\* becomes true only in a step in which the freedom condition (passiveIncome
\* >= targetLifestyle and targetLifestyle > 0) changes from false to true:
\* never into a state where targetLifestyle is 0 or passiveIncome <
\* targetLifestyle.
FreedomCondition == FreedomReached(passiveIncome, targetLifestyle)

OpensOnlyOnCrossing ==
    (~showCelebration /\ showCelebration') =>
       /\ ~FreedomCondition
       /\ FreedomCondition'
       /\ Greater(targetLifestyle', Zero)
       /\ ~Less(passiveIncome', targetLifestyle')

C23_OpenedOnlyOnCrossing ==
    /\ ~showCelebration
    /\ [][OpensOnlyOnCrossing]_vars

C23_Witness ==
    /\ IsScorecard
    /\ showCelebration
    /\ FreedomCondition
    /\ lastOp.op \in {"passiveIncomeInput", "passiveIncomeSlider"}

\* C24: after closeCelebration the modal stays closed while the freedom
\* condition keeps holding, whatever is edited; it opens again only in a step
\* in which the condition, false before, becomes true, and every such step
\* opens it; hasReachedFreedom is false whenever the condition is false.
EditOps == {"targetLifestyleInput", "passiveIncomeInput", "activeIncomeInput",
            "targetLifestyleSlider", "passiveIncomeSlider", "activeIncomeSlider",
            "savingsRateSlider", "growthSlider"}

ShownOncePerCrossing ==
    /\ lastOp'.op = "closeCelebration" =>
          ~showCelebration' /\ hasReachedFreedom' = hasReachedFreedom
    /\ (FreedomCondition /\ FreedomCondition' /\ ~showCelebration) =>
          ~showCelebration'
    /\ (~showCelebration /\ showCelebration') =>
          ~FreedomCondition /\ FreedomCondition'
    /\ (~FreedomCondition /\ FreedomCondition') => showCelebration'

C24_NoReopenWhileReached ==
    /\ [](hasReachedFreedom = FreedomCondition)
    /\ [][ShownOncePerCrossing]_vars

C24_Witness ==
    /\ IsScorecard
    /\ nOps = 2
    /\ lastOp.op \in EditOps
    /\ FreedomCondition
    /\ hasReachedFreedom
    /\ ~showCelebration

\* C25 as stated: for a target > 0 the freedom percentage is 100 only if the
\* current passive income is >= the target, that is only if independence is
\* reached at period 0, never while the resolver reports a later period or
\* not-found.
ReachedAtPeriodZero ==
    ResolverResult.kind = "date" /\ ResolverResult.year = currentYear

C25_FullOnlyWhenReached ==
    (ResolverRendered /\ Greater(ResolverTarget, Zero)
       /\ freedomPercentage = Num(100)) =>
       /\ Geq(ResolverIncome, ResolverTarget)
       /\ ReachedAtPeriodZero

\* C25 amended: for a target > 0 the freedom percentage is 100 only if the
\* current passive income is >= the target or current / target * 100 rounds to
\* 100 (it is at least 99.5); independence is resolved at period 0 exactly
\* when the current passive income is >= the target, and then, for finite
\* values, the percentage is 100.
C25_FullWhenRoundsToFull ==
    (ResolverRendered /\ Greater(ResolverTarget, Zero)) =>
       /\ freedomPercentage = Num(100) =>
             \/ Geq(ResolverIncome, ResolverTarget)
             \/ Geq(Mul(Div(ResolverIncome, ResolverTarget), Num(100)),
                    Div(Num(995), Num(10)))
       /\ ReachedAtPeriodZero <=> Geq(ResolverIncome, ResolverTarget)
       /\ (Geq(ResolverIncome, ResolverTarget)
             /\ IsFinite(ResolverIncome) /\ IsFinite(ResolverTarget)) =>
             freedomPercentage = Num(100)

C25_Witness ==
    /\ ResolverRendered
    /\ Greater(ResolverTarget, Zero)
    /\ Less(ResolverIncome, ResolverTarget)
    /\ freedomPercentage = Num(100)
    /\ ResolverResult.kind = "date"
    /\ ResolverResult.year > currentYear

\* C26: in FreedomScorecard activeIncome and savingsRate influence no output:
\* a step that edits one of them leaves the chart series, freedomDate,
\* freedomPercentage, showCelebration and hasReachedFreedom as they were.
ScorecardOutputs(target, passive, active, savings, g, cy) ==
    <<ScorecardChartData(target, passive, active, savings, g, cy),
      FreedomDate(target, passive, g, cy),
      ScorecardFreedomPercentage(passive, target)>>

SavingsOps == {"activeIncomeInput", "activeIncomeSlider", "savingsRateSlider"}

SavingsEditKeepsOutputs ==
    lastOp'.op \in SavingsOps =>
       /\ ScorecardOutputs(targetLifestyle', passiveIncome', activeIncome',
                           savingsRate', growthRate', currentYear')
            = ScorecardOutputs(targetLifestyle, passiveIncome, activeIncome,
                               savingsRate, growthRate, currentYear)
       /\ UNCHANGED <<showCelebration, hasReachedFreedom>>
       /\ UNCHANGED <<targetLifestyle, passiveIncome, growthRate>>

C26_SavingsInfluenceNothing == [][SavingsEditKeepsOutputs]_vars

C26_Witness ==
    /\ IsScorecard
    /\ lastOp.op = "savingsRateSlider"
    /\ savingsRate = Num(100)
    /\ Greater(activeIncome, Zero)
    /\ Greater(passiveIncome, Zero)

\* C27: for the same passive income, target > 0 and growth rate, freedomDate
\* of FreedomScorecard and financialIndependenceYear of PassiveIncomeTracker
\* agree: both report a crossing at the same period index in 0..50, or both
\* report not-found ('Beyond 50 years', or null in the tracker).
ScorecardOutcome ==
    FreedomDate(ResolverTarget, ResolverIncome, growthRate, currentYear)

TrackerOutcome ==
    FinancialIndependenceYear(ResolverTarget, ResolverIncome, growthRate,
                              currentYear, currentMonth)

C27_ResolversAgree ==
    (ResolverRendered /\ Greater(ResolverTarget, Zero)) =>
       /\ ResolverResult = (IF IsScorecard THEN ScorecardOutcome ELSE TrackerOutcome)
       /\ ScorecardOutcome.kind = "date" <=> TrackerOutcome.kind = "date"
       /\ ScorecardOutcome.kind = "date" =>
             /\ ScorecardOutcome.year = TrackerOutcome.year
             /\ ScorecardOutcome.year - currentYear \in 0..SearchBound
       /\ ScorecardOutcome.kind # "date" =>
             /\ ScorecardOutcome = BeyondText
             /\ TrackerOutcome \in {BeyondText, Null}

C27_Witness ==
    /\ ResolverRendered /\ IsTracker
    /\ Greater(ResolverTarget, Zero)
    /\ financialIndependenceYear.kind = "date"
    /\ financialIndependenceYear.year > currentYear + YearsToProject
    /\ ScorecardOutcome.year = financialIndependenceYear.year

\* C28: for a target > 0 the chart series and the resolver of a component are
\* consistent: a crossing the resolver reports at a period t <= 20 is the
\* first index of the chart whose passive value is >= its lifestyle value,
\* and when the chart's passive series reaches the lifestyle value at an index
\* within 0..20 the resolver reports the first such index, not not-found.
ChartReaches(i) ==
    Geq(projectionData[i + 1].passive, projectionData[i + 1].lifestyle)

ResolverPeriod == ResolverResult.year - currentYear

C28_ChartMatchesResolver ==
    (ResolverRendered /\ Greater(ResolverTarget, Zero)) =>
       /\ Len(projectionData) = YearsToProject + 1
       /\ (ResolverResult.kind = "date" /\ ResolverPeriod <= YearsToProject) =>
             /\ ResolverPeriod >= 0
             /\ ChartReaches(ResolverPeriod)
             /\ \A j \in 0..(ResolverPeriod - 1) : ~ChartReaches(j)
       /\ \A i \in 0..YearsToProject :
             (ChartReaches(i) /\ \A j \in 0..(i - 1) : ~ChartReaches(j)) =>
                ResolverResult.kind = "date" /\ ResolverPeriod = i

C28_Witness ==
    /\ ResolverRendered
    /\ Greater(ResolverTarget, Zero)
    /\ ResolverResult.kind = "date"
    /\ ResolverPeriod \in 1..YearsToProject
    /\ ChartReaches(ResolverPeriod)
    /\ ~ChartReaches(ResolverPeriod - 1)

\* C29: PasswordGate renders its children only while isAuthenticated;
\* isAuthenticated is false initially, becomes true only by handleLogin (the
\* button or the Enter key) when the typed password, trimmed and in upper
\* case, is 'MJL' followed by the number of the current month (1..12), and is
\* never set back to false; a failed handleLogin leaves it false, sets the
\* error message and clears the password.
ChildrenShown == mounted \in {"NetWorthEngine", "FreedomScorecard"}

IsLoginAttempt(op) ==
    \/ op.op = "handleLogin"
    \/ op.op = "handleKeyPress" /\ op.text = <<"Enter">>

MonthPassword == <<"M", "J", "L">> \o NumberText(currentMonth + 1)

LoginStep ==
    /\ isAuthenticated => isAuthenticated'
    /\ (~isAuthenticated /\ isAuthenticated') =>
          /\ IsLoginAttempt(lastOp')
          /\ ToUpperCase(Trim(password)) = MonthPassword
    /\ (IsLoginAttempt(lastOp') /\ ~isAuthenticated') =>
          /\ ToUpperCase(Trim(password)) # MonthPassword
          /\ error' = "Incorrect password. Please try again."
          /\ password' = <<>>

C29_GateOpensOnlyByPassword ==
    /\ ~isAuthenticated
    /\ [](ChildrenShown <=> isAuthenticated)
    /\ [](currentMonth + 1 \in 1..12)
    /\ [][LoginStep]_vars

C29_Witness ==
    /\ isAuthenticated
    /\ ChildrenShown
    /\ lastOp.op = "handleLogin"
    /\ lastOp.text = <<" ", "M", "j", "L", "1", "1", " ">>

\* C30: activeTab is 'networth' or 'freedom' in every reachable state, no
\* operation sets it to 'passive', and behind the gate exactly one of
\* NetWorthEngine and FreedomScorecard is rendered, the one of the active
\* tab; PassiveIncomeTracker is never rendered.
TabsShowOneOfTwo ==
    /\ activeTab \in {"networth", "freedom"}
    /\ mounted # "PassiveIncomeTracker"
    /\ isAuthenticated =>
          /\ activeTab = "networth" => mounted = "NetWorthEngine"
          /\ activeTab = "freedom" => mounted = "FreedomScorecard"

TabStep ==
    /\ activeTab' # "passive"
    /\ activeTab' # activeTab => lastOp'.op = "setActiveTab"
    /\ lastOp'.op = "setActiveTab" => <<activeTab'>> = lastOp'.text

C30_TwoTabs == []TabsShowOneOfTwo /\ [][TabStep]_vars

C30_Witness ==
    /\ isAuthenticated
    /\ lastOp.op = "setActiveTab"
    /\ activeTab = "freedom"
    /\ mounted = "FreedomScorecard"

====
